---- MODULE Spec2Model ----
(***************************************************************************)
(* Model of eclipse_monitor (src/main.py): seven Sensor objects, each with *)
(* a sample buffer guarded by a lock and (when initialized) a polling      *)
(* thread, the derived SGP40Sensor that drains the two AHT sensors, and    *)
(* the reporting loop of main() that drains and posts every sensor.        *)
(***************************************************************************)
EXTENDS Integers, Sequences, FiniteSets, TLC

\* ------------------------------------------------------------------ bounds
\* Total number of read() calls all polling threads may begin.
MaxReads == 3
\* Number of passes of main()'s reporting loop.
MaxTicks == 2
\* Number of add_sample calls of the single-buffer harness (SpecBuf).
MaxHarness == 3
\* The tighter bounds of the fair specification (FairSpec): read() calls
\* begun in total, and passes of the reporting loop.
FairReads == 2
FairTicks == 1

\* ------------------------------------------------------- program constants
ShortInterval == 1
LongInterval == 60

\* ----------------------------------------------------------------- sensors
MPLT == "MPLTemperatureSensor"
MPLP == "MPLPressureSensor"
AHTT == "AHTTemperatureSensor"
AHTH == "AHTHumiditySensor"
SGP == "SGP40Sensor"
TSL == "TSL2561Sensor"
UV == "UVSensor"

\* The list main() iterates over when starting and when reporting.
Sensors == <<MPLT, MPLP, AHTT, AHTH, SGP, TSL, UV>>
\* The order in which main() runs the constructors.
ConstructOrder == <<AHTT, AHTH, MPLT, MPLP, SGP, TSL, UV>>
SensorSet == {Sensors[i] : i \in 1..Len(Sensors)}
HwSensors == SensorSet \ {SGP}
\* Threads that take locks: the polling threads and the main thread.
MainThread == "main"
Drainers == {MainThread, SGP}

\* ---------------------------------------------------------------- readings
\* A Python value held in a buffer: a float, a tuple of floats, or None.
Scalar(v) == [kind |-> "scalar", val |-> <<v>>]
Tuple(vs) == [kind |-> "tuple", val |-> vs]
NoneReading == [kind |-> "none", val |-> <<>>]

\* The result of get_average_sample: None, a mean kept as the exact
\* fraction num[i]/den per component, or a raised exception.
NoData == [kind |-> "none", num |-> <<>>, den |-> 1]
Raised == [kind |-> "raise", num |-> <<>>, den |-> 1]

RECURSIVE SumComp(_, _)
SumComp(samps, j) ==
  IF samps = <<>> THEN 0 ELSE samps[1].val[j] + SumComp(Tail(samps), j)

RECURSIVE MinArity(_)
MinArity(samps) ==
  IF Len(samps) = 1 THEN Len(samps[1].val)
  ELSE LET r == MinArity(Tail(samps))
       IN IF Len(samps[1].val) < r THEN Len(samps[1].val) ELSE r

AllKind(samps, k) == \A i \in 1..Len(samps) : samps[i].kind = k

\* get_average_sample's computation on the buffer contents.
AverageMutDen(samps) ==
  IF samps = <<>> THEN NoData
  ELSE IF samps[1].kind = "tuple"
       THEN IF AllKind(samps, "tuple")
            THEN [kind |-> "tuple",
                  num |-> [j \in 1..MinArity(samps) |-> SumComp(samps, j)],
                  den |-> 1]
            ELSE Raised
       ELSE IF AllKind(samps, "scalar")
            THEN [kind |-> "scalar", num |-> <<SumComp(samps, 1)>>, den |-> 1]
            ELSE Raised

AverageMutSkipNone(samps) ==
  LET q == SelectSeq(samps, LAMBDA r : r.kind = "scalar")
  IN IF q = <<>> THEN NoData
     ELSE [kind |-> "scalar", num |-> <<SumComp(q, 1)>>, den |-> Len(q)]

Average(samps) ==
  IF samps = <<>> THEN NoData
  ELSE IF samps[1].kind = "tuple"
       THEN IF AllKind(samps, "tuple")
            THEN [kind |-> "tuple",
                  num |-> [j \in 1..MinArity(samps) |-> SumComp(samps, j)],
                  den |-> Len(samps)]
            ELSE Raised
       ELSE IF AllKind(samps, "scalar")
            THEN [kind |-> "scalar", num |-> <<SumComp(samps, 1)>>,
                  den |-> Len(samps)]
            ELSE Raised

\* What a driver can hand to read(): floats; TSL2561.lux is None when the
\* lux value is not computable. The sets are kept small: two distinct
\* temperatures, one humidity, one UV index, a zero lux and the None lux.
HwValues(s) ==
  IF s = TSL THEN {Scalar(0), NoneReading}
  ELSE IF s = AHTT THEN {Scalar(0), Scalar(1)}
  ELSE {Scalar(1)}

\* SGP40.measure_index returns an integer index.
VocValues == {Scalar(1)}

\* The devices whose acquisition may succeed in the model. The two MPL
\* sensors share one MPL3115A2 chip, taken to be absent: both constructors
\* fail and both sensors stay uninitialized, which bounds the number of
\* polling threads to five.
Attachable == {AHTT, AHTH, SGP, TSL, UV}

\* Sensor.interval and SGP40Sensor.interval.
IntervalMutUpstream(s, init, nodata) ==
  IF s = SGP THEN (IF nodata THEN LongInterval ELSE ShortInterval)
  ELSE ShortInterval

Interval(s, init, nodata) ==
  IF s = SGP THEN (IF init THEN ShortInterval ELSE LongInterval)
  ELSE ShortInterval

\* Does the constructor of class s catch an acquisition error?
CtorCatches(s) == s # UV

\* Sensor.start: the thread is started only when initialized.
StartRunsMutAlways(init) == TRUE

StartRuns(init) == init

\* `with self.lock`: the lock can be taken only when nobody holds it.
LockFreeMutNoLock(l) == TRUE

LockFree(l) == l = "free"

\* Leaving `with self.lock`: what the lock holds once thread t is out.
ReleasedMutHeld(t) == t

Released(t) == "free"

\* SGP40Sensor.read: skip when either upstream average is None.
UpstreamMissingMutAnd(t, h) == t.kind = "none" /\ h.kind = "none"

UpstreamMissing(t, h) == t.kind = "none" \/ h.kind = "none"

\* process_and_post_data / post_data: `is not None`.
HasValueMutTruthy(avg) == avg.kind # "none" /\ \E j \in 1..Len(avg.num) : avg.num[j] # 0

HasValue(avg) == avg.kind # "none"

\* Which except clause handles an exception raised inside read(): the
\* concrete read() methods catch Exception themselves and log one error.
\* "read": read()'s own handler; "rethrow": it logs and re-raises into
\* run()'s handler; "none": nothing catches it.
ReadHandlerMutRethrow(s) == "rethrow"

ReadHandlerMutUncaught(s) == "uncaught"

ReadHandler(s) == "read"

\* The sensor the reporting loop turns to after finishing index k,
\* whether or not processing of k failed.
NextIndexMutAbort(k, failed) == IF failed THEN Len(Sensors) + 1 ELSE k + 1

NextIndexMutRetry(k, failed) == IF failed THEN k ELSE k + 1

NextIndex(k, failed) == k + 1

\* ------------------------------------------------------------------- state
VARIABLES
  mainpc,      \* where main() is
  mi,          \* loop index of main(): constructor, start loop, report loop
  ticks,       \* reporting passes begun
  initialized, \* Sensor.initialized
  pc,          \* where each polling thread is
  samples,     \* Sensor.samples
  lock,        \* Sensor.lock: "free" or the thread holding it
  pending,     \* the value a polling thread is about to add_sample
  avg,         \* get_average_sample's local avg, per draining thread
  temp_avg,    \* SGP40Sensor.read locals
  hum_avg,
  sleepFor,    \* the interval a polling thread passed to time.sleep
  errlog,      \* error-level log events per thread
  reads,       \* read() calls begun, per sensor (MaxReads in total)
  \* history variables
  appended,    \* every reading whose append completed, per sensor
  drainedCat,  \* the readings averaged by completed drains, per sensor
  dres,        \* per draining thread, its last get_average_sample call
  cyc,         \* counts within the SGP40 thread's current read()
  tickLog,     \* per sensor, what the current reporting pass did
  tickErr0     \* errlog of the main thread when the pass began

vars == <<mainpc, mi, ticks, initialized, pc, samples, lock, pending, avg,
          temp_avg, hum_avg, sleepFor, errlog, reads, appended, drainedCat,
          dres, cyc, tickLog, tickErr0>>

NoDrain == [src |-> "none", taken |-> <<>>, snap |-> <<>>, ret |-> NoData,
            left |-> <<>>, done |-> FALSE]
NoCycle == [drT |-> 0, drH |-> 0, apps |-> 0, errs |-> 0, warns |-> 0,
            ran |-> FALSE, arg |-> <<NoData, NoData>>, res |-> NoneReading]
NoTick == [st |-> "none", ret |-> NoData, post |-> "no"]

Init ==
  /\ mainpc = "db"
  /\ mi = 1
  /\ ticks = 0
  /\ initialized = [s \in SensorSet |-> FALSE]
  /\ pc = [s \in SensorSet |-> "notstarted"]
  /\ samples = [s \in SensorSet |-> <<>>]
  /\ lock = [s \in SensorSet |-> "free"]
  /\ pending = [s \in SensorSet |-> NoneReading]
  /\ avg = [t \in Drainers |-> NoData]
  /\ temp_avg = NoData
  /\ hum_avg = NoData
  /\ sleepFor = [s \in SensorSet |-> 0]
  /\ errlog = [t \in SensorSet \cup {MainThread} |-> 0]
  /\ reads = [s \in SensorSet |-> 0]
  /\ appended = [s \in SensorSet |-> <<>>]
  /\ drainedCat = [s \in SensorSet |-> <<>>]
  /\ dres = [t \in Drainers |-> NoDrain]
  /\ cyc = NoCycle
  /\ tickLog = [s \in SensorSet |-> NoTick]
  /\ tickErr0 = 0


\* ------------------------------------------------------------------ main()
\* ensure_database_exists: True, False (main logs and returns), or the
\* request raises out of main().
EnsureDatabase ==
  /\ mainpc = "db"
  /\ \E outcome \in {"ok", "false", "raise"} :
       /\ mainpc' = CASE outcome = "ok" -> "construct"
                      [] outcome = "false" -> "exit"
                      [] OTHER -> "crashed_db"
       /\ errlog' = IF outcome = "false"
                    THEN [errlog EXCEPT ![MainThread] = @ + 2]
                    ELSE errlog
  /\ UNCHANGED <<mi, ticks, initialized, pc, samples, lock, pending, avg,
                 temp_avg, hum_avg, sleepFor, reads, appended, drainedCat,
                 dres, cyc, tickLog, tickErr0>>

\* One constructor call of main(): the acquisition succeeds, or fails and is
\* caught in the constructor (initialized stays False), or fails uncaught.
Construct ==
  /\ mainpc = "construct"
  /\ LET s == ConstructOrder[mi]
         advance == IF mi = Len(ConstructOrder)
                    THEN mainpc' = "start" /\ mi' = 1
                    ELSE mainpc' = mainpc /\ mi' = mi + 1
     IN \E ok \in (IF s \in Attachable THEN BOOLEAN ELSE {FALSE}) :
          IF ok
          THEN /\ initialized' = [initialized EXCEPT ![s] = TRUE]
               /\ advance
               /\ UNCHANGED errlog
          ELSE IF CtorCatches(s)
               THEN /\ errlog' = [errlog EXCEPT ![MainThread] = @ + 1]
                    /\ advance
                    /\ UNCHANGED initialized
               ELSE /\ mainpc' = "crashed_ctor"
                    /\ UNCHANGED <<mi, initialized, errlog>>
  /\ UNCHANGED <<ticks, pc, samples, lock, pending, avg, temp_avg, hum_avg,
                 sleepFor, reads, appended, drainedCat, dres, cyc, tickLog,
                 tickErr0>>

\* for sensor in sensors: sensor.start()
Start ==
  /\ mainpc = "start"
  /\ LET s == Sensors[mi]
     IN pc' = IF StartRuns(initialized[s]) THEN [pc EXCEPT ![s] = "loop"]
              ELSE pc
  /\ IF mi = Len(Sensors)
     THEN mainpc' = "sleep" /\ mi' = 1
     ELSE mainpc' = mainpc /\ mi' = mi + 1
  /\ UNCHANGED <<ticks, initialized, samples, lock, pending, avg, temp_avg,
                 hum_avg, sleepFor, errlog, reads, appended, drainedCat,
                 dres, cyc, tickLog, tickErr0>>

\* ------------------------------------------------ get_average_sample steps
\* The readings appended to s and not yet averaged by a completed drain.
Undrained(s) == SubSeq(appended[s], Len(drainedCat[s]) + 1, Len(appended[s]))

\* Entering `with self.lock` of sensor s as thread t.
TakeLock(t, s) ==
  /\ LockFree(lock[s])
  /\ lock' = [lock EXCEPT ![s] = t]

\* Entering `with self.lock`, the emptiness test and the computation of
\* avg. The call ends here (lock released again) when the buffer is empty or
\* the computation raises; otherwise the lock stays held for the clear.
DrainCompute(t, s) ==
  LET r == Average(samples[s])
      ends == r.kind \in {"none", "raise"}
  IN /\ LockFree(lock[s])
     /\ dres' = [dres EXCEPT ![t] = [src |-> s, taken |-> Undrained(s),
                                     snap |-> samples[s], ret |-> r,
                                     left |-> samples[s], done |-> ends]]
     /\ avg' = [avg EXCEPT ![t] = r]
     /\ lock' = IF ends THEN lock ELSE [lock EXCEPT ![s] = t]
     /\ UNCHANGED <<samples, drainedCat>>

\* self.samples.clear(); return avg (leaving the lock).
ClearedMutKeep(samps) == samps

Cleared(samps) == <<>>

DrainClear(t, s) ==
  /\ samples' = [samples EXCEPT ![s] = Cleared(@)]
  /\ drainedCat' = [drainedCat EXCEPT ![s] = @ \o dres[t].snap]
  /\ dres' = [dres EXCEPT ![t].left = Cleared(samples[s]), ![t].done = TRUE]
  /\ lock' = [lock EXCEPT ![s] = Released(t)]
  /\ UNCHANGED avg

\* ------------------------------------------------------ polling threads
\* time.sleep(self.interval()) at the end of a pass of run().
GoSleep(s, nodata) ==
  /\ pc' = [pc EXCEPT ![s] = "sleep"]
  /\ sleepFor' = [sleepFor EXCEPT ![s] = Interval(s, initialized[s], nodata)]

\* An exception raised inside read() of sensor s.
ReadRaises(s, nodata) ==
  LET h == ReadHandler(s)
  IN /\ errlog' = [errlog EXCEPT ![s] =
                     @ + (CASE h = "read" -> 1 [] h = "run" -> 1
                            [] h = "rethrow" -> 2 [] OTHER -> 0)]
     /\ IF h = "uncaught"
        THEN pc' = [pc EXCEPT ![s] = "dead"] /\ UNCHANGED sleepFor
        ELSE GoSleep(s, nodata)

RECURSIVE SumOver(_, _)
SumOver(f, S) ==
  IF S = {} THEN 0
  ELSE LET x == CHOOSE y \in S : TRUE IN f[x] + SumOver(f, S \ {x})

\* The bound on read() calls is not yet used up.
MayRead == SumOver(reads, SensorSet) < MaxReads

\* A thread at the top of run()'s loop: just started, or its sleep ends.
AtLoop(s) == pc[s] \in {"loop", "sleep"}

\* run() of a hardware sensor: `if self.initialized`, then read() up to the
\* driver access, which returns a value or raises.
HwRead(s) ==
  /\ s \in HwSensors
  /\ AtLoop(s)
  /\ IF ~initialized[s]
     THEN GoSleep(s, FALSE) /\ UNCHANGED <<reads, pending, errlog>>
     ELSE /\ MayRead
          /\ reads' = [reads EXCEPT ![s] = @ + 1]
          /\ \/ \E v \in HwValues(s) :
                  /\ pending' = [pending EXCEPT ![s] = v]
                  /\ pc' = [pc EXCEPT ![s] = "add_acq"]
                  /\ UNCHANGED <<sleepFor, errlog>>
             \/ ReadRaises(s, FALSE) /\ UNCHANGED pending
  /\ UNCHANGED <<mainpc, mi, ticks, initialized, samples, lock, avg, temp_avg,
                 hum_avg, appended, drainedCat, dres, cyc, tickLog, tickErr0>>

\* add_sample: entering `with self.lock`.
AddAcquire(s) ==
  /\ pc[s] = "add_acq"
  /\ TakeLock(s, s)
  /\ pc' = [pc EXCEPT ![s] = "add_cs"]
  /\ UNCHANGED <<mainpc, mi, ticks, initialized, samples, pending, avg,
                 temp_avg, hum_avg, sleepFor, errlog, reads, appended,
                 drainedCat, dres, cyc, tickLog, tickErr0>>

\* add_sample: the append, leaving the lock; read() returns and run() sleeps.
AddAppend(s) ==
  /\ pc[s] = "add_cs"
  /\ samples' = [samples EXCEPT ![s] = Append(@, pending[s])]
  /\ appended' = [appended EXCEPT ![s] = Append(@, pending[s])]
  /\ lock' = [lock EXCEPT ![s] = Released(s)]
  /\ cyc' = IF s = SGP THEN [cyc EXCEPT !.apps = @ + 1] ELSE cyc
  /\ GoSleep(s, FALSE)
  /\ UNCHANGED <<mainpc, mi, ticks, initialized, pending, avg, temp_avg,
                 hum_avg, errlog, reads, drainedCat, dres, tickLog, tickErr0>>


\* --------------------------------------------------------- SGP40Sensor
\* run() of the derived sensor: `if self.initialized`, then read() begins.
SgpBegin ==
  /\ AtLoop(SGP)
  /\ IF ~initialized[SGP]
     THEN GoSleep(SGP, FALSE) /\ UNCHANGED <<reads, cyc, temp_avg, hum_avg>>
     ELSE /\ MayRead
          /\ reads' = [reads EXCEPT ![SGP] = @ + 1]
          /\ cyc' = [NoCycle EXCEPT !.ran = TRUE]
          /\ temp_avg' = NoData
          /\ hum_avg' = NoData
          /\ pc' = [pc EXCEPT ![SGP] = "t_drain"]
          /\ UNCHANGED sleepFor
  /\ UNCHANGED <<mainpc, mi, ticks, initialized, samples, lock, pending, avg,
                 errlog, appended, drainedCat, dres, tickLog, tickErr0>>

\* temp_avg = self.temperature_sensor.get_average_sample()
SgpTempCompute ==
  /\ pc[SGP] = "t_drain"
  /\ DrainCompute(SGP, AHTT)
  /\ LET r == Average(samples[AHTT])
     IN CASE r.kind = "none" ->
               /\ temp_avg' = r
               /\ pc' = [pc EXCEPT ![SGP] = "h_drain"]
               /\ cyc' = [cyc EXCEPT !.drT = @ + 1]
               /\ UNCHANGED <<sleepFor, errlog>>
          [] r.kind = "raise" ->
               /\ ReadRaises(SGP, TRUE)
               /\ cyc' = [cyc EXCEPT !.errs = @ + 1, !.drT = @ + 1]
               /\ UNCHANGED temp_avg
          [] OTHER ->
               /\ pc' = [pc EXCEPT ![SGP] = "t_clear"]
               /\ cyc' = [cyc EXCEPT !.drT = @ + 1]
               /\ UNCHANGED <<temp_avg, sleepFor, errlog>>
  /\ UNCHANGED <<mainpc, mi, ticks, initialized, pending, hum_avg, reads,
                 appended, tickLog, tickErr0>>

SgpTempClear ==
  /\ pc[SGP] = "t_clear"
  /\ DrainClear(SGP, AHTT)
  /\ temp_avg' = avg[SGP]
  /\ pc' = [pc EXCEPT ![SGP] = "h_drain"]
  /\ UNCHANGED <<mainpc, mi, ticks, initialized, pending, hum_avg, sleepFor,
                 errlog, reads, appended, cyc, tickLog, tickErr0>>

\* After hum_avg is known: `if temp_avg is None or hum_avg is None`: warn
\* and return, else go on to measure_index.
SgpAfterHum(h, c) ==
  /\ hum_avg' = h
  /\ IF UpstreamMissing(temp_avg, h)
     THEN /\ cyc' = [c EXCEPT !.warns = @ + 1]
          /\ GoSleep(SGP, TRUE)
     ELSE /\ pc' = [pc EXCEPT ![SGP] = "measure"]
          /\ cyc' = c
          /\ UNCHANGED sleepFor

\* hum_avg = self.humidity_sensor.get_average_sample()
SgpHumCompute ==
  /\ pc[SGP] = "h_drain"
  /\ DrainCompute(SGP, AHTH)
  /\ LET r == Average(samples[AHTH])
     IN CASE r.kind = "none" ->
               /\ SgpAfterHum(r, [cyc EXCEPT !.drH = @ + 1])
               /\ UNCHANGED errlog
          [] r.kind = "raise" ->
               /\ ReadRaises(SGP, TRUE)
               /\ cyc' = [cyc EXCEPT !.errs = @ + 1, !.drH = @ + 1]
               /\ UNCHANGED hum_avg
          [] OTHER ->
               /\ pc' = [pc EXCEPT ![SGP] = "h_clear"]
               /\ cyc' = [cyc EXCEPT !.drH = @ + 1]
               /\ UNCHANGED <<hum_avg, sleepFor, errlog>>
  /\ UNCHANGED <<mainpc, mi, ticks, initialized, pending, temp_avg, reads,
                 appended, tickLog, tickErr0>>

SgpHumClear ==
  /\ pc[SGP] = "h_clear"
  /\ DrainClear(SGP, AHTH)
  /\ SgpAfterHum(avg[SGP], cyc)
  /\ UNCHANGED <<mainpc, mi, ticks, initialized, pending, temp_avg, errlog,
                 reads, appended, tickLog, tickErr0>>

\* voc_index = self.sensor.measure_index(temperature=temp_avg,
\* relative_humidity=hum_avg): returns an index or raises.
SgpMeasure ==
  /\ pc[SGP] = "measure"
  /\ \/ \E v \in VocValues :
          /\ pending' = [pending EXCEPT ![SGP] = v]
          /\ cyc' = [cyc EXCEPT !.arg = <<temp_avg, hum_avg>>, !.res = v]
          /\ pc' = [pc EXCEPT ![SGP] = "add_acq"]
          /\ UNCHANGED <<sleepFor, errlog>>
     \/ /\ ReadRaises(SGP, FALSE)
        /\ cyc' = [cyc EXCEPT !.arg = <<temp_avg, hum_avg>>, !.errs = @ + 1]
        /\ UNCHANGED pending
  /\ UNCHANGED <<mainpc, mi, ticks, initialized, samples, lock, avg, temp_avg,
                 hum_avg, reads, appended, drainedCat, dres, tickLog, tickErr0>>

\* ------------------------------------------------- main()'s reporting loop
\* time.sleep(1) ends and a pass over the sensors begins.
TickBegin ==
  /\ mainpc = "sleep"
  /\ ticks < MaxTicks
  /\ ticks' = ticks + 1
  /\ mainpc' = "drain"
  /\ mi' = 1
  /\ tickLog' = [s \in SensorSet |-> NoTick]
  /\ tickErr0' = errlog[MainThread]
  /\ UNCHANGED <<initialized, pc, samples, lock, pending, avg, temp_avg,
                 hum_avg, sleepFor, errlog, reads, appended, drainedCat,
                 dres, cyc>>

\* The loop moves on to index k (or the pass ends).
Advance(k) ==
  IF k > Len(Sensors)
  THEN mainpc' = "sleep" /\ mi' = 1
  ELSE mainpc' = "drain" /\ mi' = k

\* process_and_post_data -> get_average_sample. An empty buffer returns None
\* and nothing is posted; a raised exception is caught and logged by
\* process_and_post_data.
OrchCompute ==
  /\ mainpc = "drain"
  /\ DrainCompute(MainThread, Sensors[mi])
  /\ LET s == Sensors[mi]
         r == Average(samples[s])
     IN CASE r.kind = "none" ->
               /\ tickLog' = [tickLog EXCEPT ![s] =
                                [st |-> "drained", ret |-> r, post |-> "no"]]
               /\ Advance(NextIndex(mi, FALSE))
               /\ UNCHANGED errlog
          [] r.kind = "raise" ->
               /\ tickLog' = [tickLog EXCEPT ![s] =
                                [st |-> "raised", ret |-> r, post |-> "no"]]
               /\ errlog' = [errlog EXCEPT ![MainThread] = @ + 1]
               /\ Advance(NextIndex(mi, TRUE))
          [] OTHER ->
               /\ mainpc' = "d_clear"
               /\ UNCHANGED <<mi, tickLog, errlog>>
  /\ UNCHANGED <<ticks, initialized, pc, pending, temp_avg, hum_avg, sleepFor,
                 reads, appended, cyc, tickErr0>>

\* The clear and the return; then `if avg is not None` (and post_data's
\* `if value is not None`).
OrchClear ==
  /\ mainpc = "d_clear"
  /\ DrainClear(MainThread, Sensors[mi])
  /\ tickLog' = [tickLog EXCEPT ![Sensors[mi]] =
                   [st |-> "drained", ret |-> avg[MainThread], post |-> "no"]]
  /\ IF HasValue(avg[MainThread])
     THEN mainpc' = "post" /\ mi' = mi
     ELSE Advance(NextIndex(mi, FALSE))
  /\ UNCHANGED <<ticks, initialized, pc, pending, temp_avg, hum_avg, sleepFor,
                 errlog, reads, appended, cyc, tickErr0>>

\* post_data: requests.post succeeds, or raises and post_data logs it.
OrchPost ==
  /\ mainpc = "post"
  /\ \E ok \in BOOLEAN :
       /\ tickLog' = [tickLog EXCEPT ![Sensors[mi]].post =
                        IF ok THEN "ok" ELSE "fail"]
       /\ errlog' = IF ok THEN errlog
                    ELSE [errlog EXCEPT ![MainThread] = @ + 1]
       /\ Advance(NextIndex(mi, ~ok))
  /\ UNCHANGED <<ticks, initialized, pc, samples, lock, pending, avg,
                 temp_avg, hum_avg, sleepFor, reads, appended, drainedCat,
                 dres, cyc, tickErr0>>

\* ----------------------------------------------------------- specification
Next ==
  \/ EnsureDatabase
  \/ Construct
  \/ Start
  \/ \E s \in SensorSet : HwRead(s)
  \/ \E s \in SensorSet : AddAcquire(s)
  \/ \E s \in SensorSet : AddAppend(s)
  \/ SgpBegin
  \/ SgpTempCompute
  \/ SgpTempClear
  \/ SgpHumCompute
  \/ SgpHumClear
  \/ SgpMeasure
  \/ TickBegin
  \/ OrchCompute
  \/ OrchClear
  \/ OrchPost

Spec == Init /\ [][Next]_vars


\* ------------------------------------------------------------- fair running
\* The fair specification runs the same steps within its own bounds.
ReadsBegun ==
  reads[MPLT] + reads[MPLP] + reads[AHTT] + reads[AHTH] + reads[SGP]
    + reads[TSL] + reads[UV]

WithinFair ==
  /\ ReadsBegun <= FairReads
  /\ ticks <= FairTicks

FairNext == Next /\ WithinFair'

\* The program never halts while some thread can take a step: every sleep
\* ends, every driver access, measurement and request returns, and a thread
\* that can run is scheduled. Within the bounds every run is finite, so
\* this is as strong as fairness for each thread separately.
FairSpec ==
  /\ Init
  /\ [][FairNext]_vars
  /\ WF_vars(FairNext)

\* ------------------------------------------- one Sensor buffer in isolation
\* A single Sensor object whose add_sample and get_average_sample are
\* called one after the other with readings of every shape: floats, tuples
\* of floats of arity 2 and 1, and None.
HarnessSensor == AHTT
HarnessValues ==
  {Scalar(0), Scalar(10), Scalar(20), Scalar(30), Tuple(<<1, 2>>),
   Tuple(<<3, 4>>), Tuple(<<5>>), NoneReading}

InitBuf ==
  /\ mainpc = "harness"
  /\ mi = 1
  /\ ticks = 0
  /\ initialized = [s \in SensorSet |-> FALSE]
  /\ pc = [s \in SensorSet |-> "notstarted"]
  /\ samples = [s \in SensorSet |-> <<>>]
  /\ lock = [s \in SensorSet |-> "free"]
  /\ pending = [s \in SensorSet |-> NoneReading]
  /\ avg = [t \in Drainers |-> NoData]
  /\ temp_avg = NoData
  /\ hum_avg = NoData
  /\ sleepFor = [s \in SensorSet |-> 0]
  /\ errlog = [t \in SensorSet \cup {MainThread} |-> 0]
  /\ reads = [s \in SensorSet |-> 0]
  /\ appended = [s \in SensorSet |-> <<>>]
  /\ drainedCat = [s \in SensorSet |-> <<>>]
  /\ dres = [t \in Drainers |-> NoDrain]
  /\ cyc = NoCycle
  /\ tickLog = [s \in SensorSet |-> NoTick]
  /\ tickErr0 = 0

\* add_sample(value), from entering the lock to leaving it.
BufAddSample ==
  /\ mainpc = "harness"
  /\ Len(appended[HarnessSensor]) < MaxHarness
  /\ LockFree(lock[HarnessSensor])
  /\ \E v \in HarnessValues :
       /\ samples' = [samples EXCEPT ![HarnessSensor] = Append(@, v)]
       /\ appended' = [appended EXCEPT ![HarnessSensor] = Append(@, v)]
  /\ UNCHANGED <<mainpc, mi, ticks, initialized, pc, lock, pending, avg,
                 temp_avg, hum_avg, sleepFor, errlog, reads, drainedCat, dres,
                 cyc, tickLog, tickErr0>>

\* get_average_sample(), from entering the lock to leaving it.
BufGetAverage ==
  /\ mainpc = "harness"
  /\ LockFree(lock[HarnessSensor])
  /\ LET s == HarnessSensor
         r == Average(samples[s])
         ends == r.kind \in {"none", "raise"}
         after == IF ends THEN samples[s] ELSE Cleared(samples[s])
     IN /\ samples' = [samples EXCEPT ![s] = after]
        /\ drainedCat' = IF ends THEN drainedCat
                         ELSE [drainedCat EXCEPT ![s] = @ \o samples[s]]
        /\ avg' = [avg EXCEPT ![MainThread] = r]
        /\ dres' = [dres EXCEPT ![MainThread] =
                      [src |-> s, taken |-> Undrained(s), snap |-> samples[s],
                       ret |-> r, left |-> after, done |-> TRUE]]
  /\ UNCHANGED <<mainpc, mi, ticks, initialized, pc, lock, pending, temp_avg,
                 hum_avg, sleepFor, errlog, reads, appended, cyc, tickLog,
                 tickErr0>>

NextBuf == BufAddSample \/ BufGetAverage

SpecBuf == InitBuf /\ [][NextBuf]_vars

\* ================================================================== claims
\* A completed get_average_sample call of some thread.
DoneDrains == {t \in Drainers : dres[t].done /\ dres[t].src # "none"}

IsValue(r) == r.kind \in {"scalar", "tuple"}

\* C1: every reading whose append has completed is included in exactly one
\* drain, the first one that takes the lock after the append: a completed
\* drain averaged exactly the readings appended since the previous drain
\* and left none of them behind, and at all times the readings averaged by
\* the drains so far followed by the buffer contents are the readings
\* appended, each once and in order.
C1_ExactlyOneDrain ==
  /\ \A s \in SensorSet : drainedCat[s] \o samples[s] = appended[s]
  /\ \A t \in DoneDrains :
       dres[t].taken # <<>> =>
         /\ IsValue(dres[t].ret)
         /\ dres[t].snap = dres[t].taken
         /\ dres[t].left = <<>>

\* The same statement restricted to drains of buffers holding only floats.
C1_ExactlyOneDrainOfFloats ==
  /\ \A s \in SensorSet : drainedCat[s] \o samples[s] = appended[s]
  /\ \A t \in DoneDrains :
       (dres[t].taken # <<>> /\ AllKind(dres[t].taken, "scalar")) =>
         /\ IsValue(dres[t].ret)
         /\ dres[t].snap = dres[t].taken
         /\ dres[t].left = <<>>

\* The sum of component j over a sequence of readings, by index.
ColSum(q, j) ==
  LET f[i \in 0..Len(q)] == IF i = 0 THEN 0 ELSE f[i - 1] + q[i].val[j]
  IN f[Len(q)]

\* Readings of one shape: all floats, or all tuples of one arity.
SameShape(q) ==
  \/ AllKind(q, "scalar")
  \/ /\ AllKind(q, "tuple")
     /\ \A i \in 1..Len(q) : Len(q[i].val) = Len(q[1].val)

\* r is the component-wise arithmetic mean of the readings q.
IsMeanOf(r, q) ==
  /\ r.kind = q[1].kind
  /\ Len(r.num) = Len(q[1].val)
  /\ r.den > 0
  /\ \A j \in 1..Len(r.num) : r.num[j] * Len(q) = r.den * ColSum(q, j)

\* C2: for every non-empty sequence of same-shape readings appended since
\* the previous drain, get_average_sample returns their component-wise
\* arithmetic mean (scalar for scalars, tuple of the same arity for tuples)
\* and the buffer is empty when the call returns.
C2_MeanAndEmpty ==
  \A t \in DoneDrains :
    (dres[t].taken # <<>> /\ SameShape(dres[t].taken)) =>
      /\ IsMeanOf(dres[t].ret, dres[t].taken)
      /\ dres[t].left = <<>>

\* The spec's tuple scenario: [(1, 2), (3, 4)] drains to (2, 3).
C2_Witness ==
  /\ dres[MainThread].done
  /\ dres[MainThread].taken = <<Tuple(<<1, 2>>), Tuple(<<3, 4>>)>>
  /\ dres[MainThread].ret = [kind |-> "tuple", num |-> <<4, 6>>, den |-> 2]

ZeroMean(r) == r.kind = "scalar" /\ r.num = <<0>>

\* C3: get_average_sample on an empty buffer returns None (no zero average,
\* no exception) and leaves the buffer empty; a drain of a non-empty buffer
\* whose mean is 0 returns the value 0, and the reporting loop forwards it:
\* it goes on to post it.
C3_NoDataIsNotZero ==
  /\ \A t \in DoneDrains :
       /\ dres[t].snap = <<>> => dres[t].ret = NoData /\ dres[t].left = <<>>
       /\ (dres[t].snap # <<>> /\ AllKind(dres[t].snap, "scalar")
             /\ ColSum(dres[t].snap, 1) = 0) => ZeroMean(dres[t].ret)
  /\ \A i \in 1..Len(Sensors) :
       LET s == Sensors[i]
       IN (tickLog[s].st = "drained" /\ ZeroMean(tickLog[s].ret)) =>
            \/ mainpc = "post" /\ mi = i
            \/ tickLog[s].post \in {"ok", "fail"}

C3_Witness ==
  /\ \E s \in SensorSet : ZeroMean(tickLog[s].ret) /\ tickLog[s].post = "ok"
  /\ \E s \in SensorSet : tickLog[s].st = "drained" /\ tickLog[s].ret = NoData

\* C4: a sensor whose initialization failed has no polling thread, performs
\* no read and appends nothing: its buffer is empty in every state and
\* every drain of it, on every pass of the reporting loop, returns None.
C4_FailedSourceInert ==
  \A s \in SensorSet :
    ~initialized[s] =>
      /\ pc[s] = "notstarted"
      /\ reads[s] = 0
      /\ samples[s] = <<>>
      /\ appended[s] = <<>>
      /\ tickLog[s].st \in {"none", "drained"}
      /\ tickLog[s].ret = NoData
      /\ \A t \in DoneDrains : dres[t].src = s => dres[t].ret = NoData

C4_Witness ==
  /\ ticks = MaxTicks
  /\ mainpc = "sleep"
  /\ ~initialized[AHTT]
  /\ initialized[SGP]
  /\ tickLog[AHTT].st = "drained"
  /\ dres[SGP].src = AHTH
  /\ reads[SGP] > 0

\* C5: an acquisition error during construction is contained in the
\* constructor for every sensor class, UVSensor included: it never
\* terminates main().
C5_AcquisitionContained == mainpc # "crashed_ctor"


\* A step in which a read() of sensor s fails: the driver access of a
\* hardware sensor, or measure_index of the derived sensor, raises.
ReadFailStep(s) ==
  IF s = SGP
  THEN pc[SGP] = "measure" /\ pc'[SGP] \notin {"measure", "add_acq"}
  ELSE reads'[s] = reads[s] + 1 /\ pc'[s] # "add_acq"

\* C6: a failed read of a running sensor logs exactly one error, appends
\* nothing, leaves the polling thread alive and asleep for interval() before
\* its next read, and changes no other thread's position, buffer or lock.
C6_ReadFailureContained ==
  [][\A s \in SensorSet :
       ReadFailStep(s) =>
         /\ errlog'[s] = errlog[s] + 1
         /\ \A x \in DOMAIN errlog : x # s => errlog'[x] = errlog[x]
         /\ samples' = samples
         /\ appended' = appended
         /\ pc'[s] = "sleep"
         /\ sleepFor'[s] = Interval(s, initialized[s], FALSE)
         /\ \A x \in SensorSet : x # s => pc'[x] = pc[x]
         /\ lock' = lock
         /\ mainpc' = mainpc /\ mi' = mi]_vars

\* After a failed read the same thread has read again and got a value,
\* while another thread is inside its own add_sample.
C6_Witness ==
  \E s \in HwSensors :
    /\ errlog[s] >= 1
    /\ pc[s] = "add_acq"
    /\ \E x \in SensorSet : x # s /\ pc[x] = "add_cs"

\* What the current pass of the reporting loop has done with sensor s.
Processed(s) ==
  /\ tickLog[s].st \in {"drained", "raised"}
  /\ (tickLog[s].st = "drained" /\ IsValue(tickLog[s].ret)) =>
       tickLog[s].post \in {"ok", "fail"}

FailedInTick ==
  {s \in SensorSet : tickLog[s].st = "raised" \/ tickLog[s].post = "fail"}

\* C7: within one pass of the reporting loop a failure while draining or
\* posting one sensor is caught and logged (one error each); every sensor
\* later in the list is still drained and, if it has a value, posted in the
\* same pass, and the loop returns to its sleep for the next pass.
C7_TickFailureContained ==
  /\ mainpc \in {"drain", "d_clear", "post"} =>
       \A i \in 1..(mi - 1) : Processed(Sensors[i])
  /\ (mainpc = "sleep" /\ ticks >= 1) => \A s \in SensorSet : Processed(s)
  /\ ticks >= 1 => errlog[MainThread] - tickErr0 = Cardinality(FailedInTick)

\* In the second pass a drain raised, a post failed, and a later sensor was
\* still posted.
C7_Witness ==
  /\ ticks = 2
  /\ \E i, j, k \in 1..Len(Sensors) :
       /\ i < k /\ j < k
       /\ tickLog[Sensors[i]].st = "raised"
       /\ tickLog[Sensors[j]].post = "fail"
       /\ tickLog[Sensors[k]].post = "ok"

\* The derived sensor is asleep after a read() in which an upstream drain
\* returned None.
SgpSkipped ==
  /\ pc[SGP] = "sleep"
  /\ cyc.ran
  /\ temp_avg.kind = "none" \/ hum_avg.kind = "none"

\* The derived sensor is asleep after a read() in which both upstream
\* drains returned a value.
SgpHadBoth ==
  /\ pc[SGP] = "sleep"
  /\ cyc.ran
  /\ IsValue(temp_avg) /\ IsValue(hum_avg)

\* C8: when either upstream drain returned None the derived read is a
\* no-op: nothing is appended to the derived sensor's buffer, no error is
\* raised or logged, each upstream was drained once (no retry) and the read
\* returned straight to the sleep of the polling loop.
C8_SkipIsNoOp ==
  SgpSkipped =>
    /\ cyc.apps = 0
    /\ cyc.errs = 0
    /\ cyc.warns = 1
    /\ cyc.drT = 1 /\ cyc.drH = 1
    /\ lock[SGP] # SGP

C8_Witness ==
  /\ SgpSkipped
  /\ IsValue(temp_avg)
  /\ hum_avg.kind = "none"
  /\ samples[AHTH] # <<>>

\* C9 as claimed: when both upstream drains return a value, one derived
\* read appends exactly one scalar to the derived sensor's buffer.
C9_ExactlyOneAppend == SgpHadBoth => cyc.apps = 1

\* A step of the derived sensor's polling thread.
SgpStep == pc[SGP] # "notstarted" /\ pc'[SGP] # pc[SGP]

\* The buffer of upstream u after the derived thread's step: unchanged, or,
\* in the clear of its drain, without the readings that were averaged.
UpstreamFrame(u, clearpc) ==
  \/ samples'[u] = samples[u]
  \/ /\ pc[SGP] = clearpc
     /\ samples'[u] = SubSeq(samples[u], Len(dres[SGP].snap) + 1,
                             Len(samples[u]))

\* C9, amended: when both upstream drains return a value, one derived read
\* calls measure_index with those two averages and appends the index it
\* returns, exactly one scalar, to the derived sensor's buffer, or, when
\* measure_index raises, logs one error and appends nothing; and a step of
\* the derived thread changes an upstream buffer only by removing the
\* readings its drain averaged, its own buffer only by that append, and no
\* other buffer.
C9_AppendUnlessMeasureFails ==
  /\ [](SgpHadBoth =>
          /\ cyc.arg = <<temp_avg, hum_avg>>
          /\ cyc.errs = 0 =>
               /\ cyc.apps = 1
               /\ appended[SGP] # <<>>
               /\ appended[SGP][Len(appended[SGP])] = cyc.res
          /\ cyc.errs # 0 => cyc.errs = 1 /\ cyc.apps = 0)
  /\ [][SgpStep =>
          /\ UpstreamFrame(AHTT, "t_clear")
          /\ UpstreamFrame(AHTH, "h_clear")
          /\ \/ samples'[SGP] = samples[SGP]
             \/ /\ pc[SGP] = "add_cs"
                /\ samples'[SGP] = Append(samples[SGP], pending[SGP])
          /\ \A x \in SensorSet \ {AHTT, AHTH, SGP} :
               samples'[x] = samples[x]]_vars

\* The derived read appended its index; both upstream buffers are empty.
C9_Witness ==
  /\ SgpHadBoth
  /\ cyc.apps = 1
  /\ samples[SGP] = <<cyc.res>>
  /\ drainedCat[AHTT] # <<>> /\ drainedCat[AHTH] # <<>>

\* C10 as claimed: the derived sensor sleeps the long interval after a read
\* in which an upstream drain returned None, the short one after a read in
\* which both returned a value.
C10_BacksOffWithoutData ==
  /\ SgpSkipped => sleepFor[SGP] = LongInterval
  /\ SgpHadBoth => sleepFor[SGP] = ShortInterval

\* C10, amended: the derived sensor's interval depends on its own
\* initialized flag only. A running derived sensor sleeps the short
\* interval after every read, with or without upstream data; the long
\* interval belongs to an uninitialized one, whose thread is never started.
C10_IntervalIgnoresUpstream ==
  /\ (pc[SGP] = "sleep" /\ cyc.ran) => sleepFor[SGP] = ShortInterval
  /\ \A s \in SensorSet : sleepFor[s] # LongInterval
  /\ pc[SGP] # "notstarted" => initialized[SGP]

C10_Witness == SgpSkipped /\ sleepFor[SGP] = ShortInterval

\* C11 as claimed: add_sample rejects a reading whose shape differs from the
\* readings already buffered (or that is not numeric) and leaves the buffer
\* unchanged, so in every reachable state the readings buffered for one
\* sensor are all floats or all tuples of one arity.
C11_BufferOneShape == \A s \in SensorSet : SameShape(samples[s])

\* The reporting loop leaves sensor number mi for the next one, or ends the
\* pass after the last one.
MovedOn ==
  \/ mainpc' = "drain" /\ mi' = mi + 1
  \/ mainpc' = "sleep" /\ mi = Len(Sensors)

\* A step of the main thread inside a reporting pass.
OrchStep ==
  /\ mainpc \in {"drain", "d_clear", "post"}
  /\ mainpc' # mainpc \/ mi' # mi

\* C12: on every pass of the reporting loop and for every sensor, the loop
\* calls get_average_sample once and attempts a write for it exactly when
\* the call returned a value (never on None, never after a raised drain);
\* there is at most one write attempt per sensor per pass, and after a
\* failed write the loop goes on to the next sensor: the write is reached
\* only from a drain that just returned a value, never again from itself.
C12_OneDrainOneWrite ==
  /\ [](\A s \in SensorSet :
          /\ tickLog[s].post \in {"ok", "fail"} =>
               tickLog[s].st = "drained" /\ IsValue(tickLog[s].ret)
          /\ tickLog[s].st = "raised" => tickLog[s].post = "no")
  /\ [](mainpc \in {"drain", "d_clear", "post"} =>
          /\ \A i \in 1..(mi - 1) : Processed(Sensors[i])
          /\ \A i \in mi..Len(Sensors) : tickLog[Sensors[i]].post = "no"
          /\ \A i \in (mi + 1)..Len(Sensors) : tickLog[Sensors[i]] = NoTick)
  /\ []((mainpc = "sleep" /\ ticks >= 1) =>
          \A s \in SensorSet : Processed(s))
  /\ [][OrchStep =>
          LET s == Sensors[mi]
          IN /\ \A x \in SensorSet \ {s} : tickLog'[x] = tickLog[x]
             /\ mainpc = "drain" =>
                  /\ tickLog[s] = NoTick
                  /\ dres'[MainThread].src = s
                  /\ IF IsValue(dres'[MainThread].ret)
                     THEN mainpc' = "d_clear" /\ mi' = mi
                     ELSE MovedOn /\ tickLog'[s].st \in {"drained", "raised"}
             /\ mainpc = "d_clear" =>
                  /\ mainpc' = "post" /\ mi' = mi
                  /\ tickLog'[s] = [st |-> "drained", ret |-> avg[MainThread],
                                    post |-> "no"]
                  /\ IsValue(avg[MainThread])
             /\ mainpc = "post" =>
                  /\ MovedOn
                  /\ tickLog[s].post = "no"
                  /\ tickLog'[s].post \in {"ok", "fail"}]_vars

\* A pass has ended in which one sensor's write failed, another's
\* succeeded, and a third had nothing to write.
C12_Witness ==
  /\ mainpc = "sleep"
  /\ ticks = MaxTicks
  /\ \E a, b, c \in SensorSet :
       /\ tickLog[a].post = "fail"
       /\ tickLog[b].post = "ok"
       /\ tickLog[c].st = "drained" /\ tickLog[c].ret = NoData
            /\ initialized[c]

\* The threads of the program: the main thread and the polling threads.
Threads == SensorSet \cup {MainThread}

\* Thread t is inside a `with self.lock` block of sensor x: the append of
\* add_sample, or get_average_sample between computing avg and the clear.
InCritical(t, x) ==
  \/ t = x /\ pc[x] = "add_cs"
  \/ t = SGP /\ x = AHTT /\ pc[SGP] = "t_clear"
  \/ t = SGP /\ x = AHTH /\ pc[SGP] = "h_clear"
  \/ t = MainThread /\ mainpc = "d_clear" /\ Sensors[mi] = x

\* C13: no thread holds a buffer lock while it does blocking I/O or sleeps.
\* A polling thread that sleeps, is about to access its driver (the access
\* is the step that leaves the top of the loop), waits for a lock or is
\* inside measure_index holds no lock; the main thread holds none while it
\* talks to the database, posts or sleeps. A lock is held only by a thread
\* inside the append or inside the average-and-clear of that very sensor.
C13_NoLockAcrossIO ==
  /\ \A s \in SensorSet :
       pc[s] \in {"notstarted", "loop", "sleep", "add_acq", "measure",
                  "t_drain", "h_drain", "dead"} =>
         \A x \in SensorSet : lock[x] # s
  /\ mainpc # "d_clear" => \A x \in SensorSet : lock[x] # MainThread
  /\ \A x \in SensorSet : lock[x] # "free" => InCritical(lock[x], x)

\* The main thread is posting, one polling thread is inside its append and
\* another sleeps after a read.
C13_Witness ==
  /\ mainpc = "post"
  /\ \E x, y \in SensorSet :
       /\ pc[x] = "add_cs" /\ lock[x] = x
       /\ pc[y] = "sleep" /\ reads[y] > 0

\* C14: append and drain on one buffer exclude each other: at most one
\* thread is inside a critical section of a sensor, it is the one holding
\* that sensor's lock, and while a drain sits between computing avg and the
\* clear the buffer still holds exactly the readings it averaged.
C14_MutualExclusion ==
  /\ \A x \in SensorSet :
       LET inside == {t \in Threads : InCritical(t, x)}
       IN /\ Cardinality(inside) <= 1
          /\ \A t \in inside : lock[x] = t
  /\ \A t \in Drainers, x \in SensorSet :
       (InCritical(t, x) /\ ~(t = x /\ pc[x] = "add_cs")) =>
         /\ dres[t].src = x
         /\ samples[x] = dres[t].snap

\* An append waits for the lock while a drain of the same buffer is between
\* its computation and its clear.
C14_Witness ==
  \E x \in SensorSet, t \in Drainers :
    /\ pc[x] = "add_acq"
    /\ t # x
    /\ InCritical(t, x)

\* The two sensors the derived sensor drains.
Upstreams == {AHTT, AHTH}

\* C15: the derived read and the reporting loop are competing consumers of
\* an upstream buffer. A drain by either of them averages exactly the
\* readings appended since the most recent drain by either, and removes
\* them; so the readings averaged by all drains so far, followed by the
\* buffer, are the readings appended, each once: a reading the derived read
\* drained is in no average the reporting loop forwards, and the other way
\* round. What the loop forwards for an upstream is the mean it just got.
C15_CompetingConsumers ==
  \A u \in Upstreams :
    /\ drainedCat[u] \o samples[u] = appended[u]
    /\ \A t \in Drainers :
         (dres[t].src = u /\ dres[t].done) =>
           /\ dres[t].snap = dres[t].taken
           /\ dres[t].left = <<>>
           /\ dres[t].taken = <<>> => dres[t].ret = NoData
           /\ dres[t].taken # <<>> => IsMeanOf(dres[t].ret, dres[t].taken)
    /\ (mainpc = "post" /\ Sensors[mi] = u) =>
         /\ dres[MainThread].src = u
         /\ avg[MainThread] = dres[MainThread].ret
         /\ IsMeanOf(avg[MainThread], dres[MainThread].taken)
    /\ tickLog[u].st # "raised"

\* The derived read drained the temperature 1, a temperature 0 was appended
\* afterwards, and the reporting loop then forwarded the mean 0.
C15_Witness ==
  /\ temp_avg = [kind |-> "scalar", num |-> <<1>>, den |-> 1]
  /\ appended[AHTT] = <<Scalar(1), Scalar(0)>>
  /\ drainedCat[AHTT] = appended[AHTT]
  /\ tickLog[AHTT] = [st |-> "drained",
                      ret |-> [kind |-> "scalar", num |-> <<0>>, den |-> 1],
                      post |-> "ok"]

\* The polling thread of s is at the top of run()'s loop and the bounds of
\* the fair specification leave it a read.
CanRead(s) == AtLoop(s) /\ ReadsBegun < FairReads

\* C16: initialized is decided in the constructor and never changes once
\* the constructors are done; a sensor has a polling thread exactly when it
\* was initialized at start, started once by the start loop; and under fair
\* scheduling that thread keeps alternating read and sleep: it never dies,
\* a read it began ends in the sleep, and from the top of the loop it reads
\* again as long as the bound on reads leaves a read. Within the bounds:
\* every fair run comes to rest only with every polling thread out of its
\* read, at the top of its loop or asleep, and with no read left.
C16_ReadyOnceAndPollsForever ==
  /\ [][\A s \in SensorSet :
          /\ initialized'[s] # initialized[s] =>
               /\ mainpc = "construct" /\ ConstructOrder[mi] = s
               /\ ~initialized[s] /\ pc[s] = "notstarted"
          /\ (pc[s] = "notstarted" /\ pc'[s] # "notstarted") =>
               /\ mainpc = "start" /\ Sensors[mi] = s
               /\ initialized[s] /\ pc'[s] = "loop"
          /\ pc[s] # "notstarted" => pc'[s] \notin {"notstarted", "dead"}]_vars
  /\ [](mainpc \in {"sleep", "drain", "d_clear", "post"} =>
          \A s \in SensorSet : initialized[s] <=> pc[s] # "notstarted")
  /\ <>[](\A s \in SensorSet :
            /\ pc[s] \in {"notstarted", "loop", "sleep"}
            /\ ~CanRead(s))

\* One polling thread has read, slept and read again, and is asleep again.
C16_Witness ==
  \E s \in SensorSet :
    /\ pc[s] = "sleep"
    /\ reads[s] = FairReads
    /\ Len(appended[s]) = 1
    /\ \E x \in SensorSet : ~initialized[x] /\ x \in Attachable

\* Reading number k appended to s is a float.
NumericAt(s, k) == Len(appended[s]) >= k /\ appended[s][k].kind = "scalar"

\* C17 as claimed: under fair scheduling every numeric reading appended to
\* a buffer is eventually removed from it by a drain. Within the bounds: a
\* float appended while a whole pass of the reporting loop is still to come
\* is eventually among the readings a completed drain averaged.
C17_EveryReadingDrained ==
  \A s \in SensorSet : \A k \in 1..FairReads :
    (NumericAt(s, k) /\ ticks < FairTicks) ~> (Len(drainedCat[s]) >= k)

\* The same for the sensors whose driver hands out floats only.
C17_FloatBuffersDrained ==
  \A s \in SensorSet \ {TSL} : \A k \in 1..FairReads :
    (NumericAt(s, k) /\ ticks < FairTicks) ~> (Len(drainedCat[s]) >= k)

\* Thread t is about to enter `with self.lock` of sensor x.
Waiting(t, x) ==
  \/ t = x /\ pc[x] = "add_acq"
  \/ t = SGP /\ x = AHTT /\ pc[SGP] = "t_drain"
  \/ t = SGP /\ x = AHTH /\ pc[SGP] = "h_drain"
  \/ t = MainThread /\ mainpc = "drain" /\ Sensors[mi] = x

\* C18: no thread holds more than one buffer lock at a time, and a thread
\* that holds a lock is never waiting for another one (the derived read is
\* out of the temperature lock before it asks for the humidity lock, and
\* out of that before it asks for its own), so no cycle of lock waits
\* exists; and under fair scheduling every lock acquisition succeeds: every
\* run comes to rest with no thread waiting for a lock and every lock free.
C18_NoLockCycle ==
  /\ [](\A t \in Threads : Cardinality({x \in SensorSet : lock[x] = t}) <= 1)
  /\ [](\A x \in SensorSet :
          lock[x] # "free" =>
            /\ InCritical(lock[x], x)
            /\ \A y \in SensorSet : ~Waiting(lock[x], y))
  /\ <>[](\A x \in SensorSet :
            /\ lock[x] = "free"
            /\ \A t \in Threads : ~Waiting(t, x))

\* A thread waits for a lock that another thread holds.
C18_Witness ==
  \E x \in SensorSet, t \in Threads :
    /\ Waiting(t, x)
    /\ lock[x] \notin {"free", t}
    /\ pc[SGP] \in {"t_drain", "h_drain", "t_clear", "h_clear"}

\* A buffer get_average_sample cannot average: it holds a reading that is
\* not numeric, or floats together with tuples.
Offending(q) ==
  /\ q # <<>>
  /\ ~AllKind(q, "scalar")
  /\ ~AllKind(q, "tuple")

IsPrefix(q, r) == Len(q) <= Len(r) /\ SubSeq(r, 1, Len(q)) = q

\* C19: a get_average_sample that fails while computing the mean is out of
\* the lock and has left the buffer as it was; an offending buffer makes
\* the drain fail, stays offending and only grows, so every later drain
\* fails the same way; and the reporting loop never again reaches the clear
\* or the post for that sensor: it forwards no further average (a post of
\* an average taken before the buffer became offending may still be under
\* way).
C19_FailedDrainKeepsBuffer ==
  /\ [](\A t \in Drainers :
          /\ (dres[t].src # "none" /\ dres[t].ret = Raised) =>
               /\ dres[t].done
               /\ dres[t].left = dres[t].snap
               /\ lock[dres[t].src] # t
          /\ Offending(dres[t].snap) <=> dres[t].ret = Raised)
  /\ [](\A s \in SensorSet :
          /\ Offending(samples[s]) =>
               ~(mainpc = "d_clear" /\ Sensors[mi] = s)
          /\ tickLog[s].st = "raised" =>
               Offending(samples[s]) /\ tickLog[s].post = "no")
  /\ [][\A s \in SensorSet :
          Offending(samples[s]) =>
            /\ IsPrefix(samples[s], samples'[s])
            /\ Offending(samples'[s])
            /\ tickLog'[s].st \in {tickLog[s].st, "none", "raised"}
            /\ tickLog'[s].ret \in {tickLog[s].ret, NoData, Raised}
            /\ (mainpc' = "post" /\ Sensors[mi'] = s) =>
                 (mainpc = "post" /\ mi' = mi)
            /\ drainedCat'[s] = drainedCat[s]]_vars

\* The second pass failed on the light sensor as the first did, on a buffer
\* that still starts with the None and has grown since.
C19_Witness ==
  /\ ticks = 2
  /\ tickLog[TSL].st = "raised"
  /\ \A s \in SensorSet \ {TSL} : appended[s] = <<>>
  /\ \A s \in Attachable : initialized[s]
  /\ errlog[MainThread] = tickErr0 + 1
  /\ tickErr0 = Cardinality(SensorSet \ Attachable) + 1
  /\ Len(samples[TSL]) >= 2
  /\ samples[TSL][1] = NoneReading
  /\ drainedCat[TSL] = <<>>

\* A derived read in which exactly one upstream drain returned a value.
SgpOnlyTemp == SgpSkipped /\ IsValue(temp_avg) /\ hum_avg.kind = "none"

SgpOnlyHum == SgpSkipped /\ temp_avg.kind = "none" /\ IsValue(hum_avg)

\* C20: every derived read drains the temperature sensor first and the
\* humidity sensor second, in two separate critical sections, and drains
\* both whatever the first returned. When exactly one of them returned a
\* value the readings behind it are out of the upstream buffer, nothing was
\* appended to the derived buffer, and, the reporting loop averaging only
\* what is in the buffer, they are in no average it forwards.
C20_BothDrainedInOrder ==
  /\ [][SgpStep =>
          /\ pc[SGP] = "t_drain" => pc'[SGP] \in {"t_clear", "h_drain"}
          /\ pc[SGP] = "t_clear" => pc'[SGP] = "h_drain"
          /\ pc'[SGP] = "h_drain" =>
               /\ pc[SGP] \in {"t_drain", "t_clear"}
               /\ temp_avg' = dres'[SGP].ret
               /\ dres'[SGP].src = AHTT /\ dres'[SGP].done
          /\ pc[SGP] = "h_drain" => pc'[SGP] \in {"h_clear", "measure", "sleep"}
          /\ pc'[SGP] \in {"h_clear", "measure"} =>
               pc[SGP] \in {"h_drain", "h_clear"}
          /\ (pc'[SGP] = "sleep" /\ pc[SGP] \in {"h_drain", "h_clear"}) =>
               /\ hum_avg' = dres'[SGP].ret
               /\ dres'[SGP].src = AHTH /\ dres'[SGP].done]_vars
  /\ [](pc[SGP] \in {"h_drain", "h_clear", "measure"} =>
          /\ lock[AHTT] # SGP
          /\ cyc.drT = 1)
  /\ []((pc[SGP] = "sleep" /\ cyc.ran) => cyc.drT = 1 /\ cyc.drH = 1)
  /\ []((SgpOnlyTemp \/ SgpOnlyHum) =>
          /\ cyc.apps = 0
          /\ \A u \in Upstreams : drainedCat[u] \o samples[u] = appended[u])
  /\ [](SgpOnlyTemp => drainedCat[AHTT] # <<>>)
  /\ [](SgpOnlyHum =>
          /\ dres[SGP].taken # <<>>
          /\ dres[SGP].left = <<>>
          /\ IsPrefix(dres[SGP].taken,
                      SubSeq(drainedCat[AHTH],
                             Len(drainedCat[AHTH]) - Len(dres[SGP].taken) + 1,
                             Len(drainedCat[AHTH]))))
  /\ [](\A u \in Upstreams :
          (mainpc = "post" /\ Sensors[mi] = u) =>
            /\ dres[MainThread].snap = dres[MainThread].taken
            /\ IsMeanOf(avg[MainThread], dres[MainThread].taken))

\* The derived read drained a humidity reading while the temperature buffer
\* was empty; the reading is gone, the derived buffer is empty, and the
\* reporting pass after it found no humidity to forward.
C20_Witness ==
  /\ SgpOnlyHum
  /\ appended[AHTH] # <<>>
  /\ drainedCat[AHTH] = appended[AHTH]
  /\ appended[SGP] = <<>>
  /\ mainpc = "sleep"
  /\ ticks = 1
  /\ tickLog[AHTH] = [st |-> "drained", ret |-> NoData, post |-> "no"]

====
